---- MODULE Spec2Model ----
(***************************************************************************)
(* A model of lib/event-dispatcher.js: the EventDispatcher class, the      *)
(* BrowserWindow stubs it fans events out to, the EventEmitters whose      *)
(* handlers it registers, and the promise jobs restart() leaves behind.    *)
(***************************************************************************)
EXTENDS Integers, Sequences, FiniteSets, TLC

\* ------------------------------------------------------------------ bounds
MaxAttach == 2        \* attach() calls made in all
MaxConnectors == 2    \* entries of this.connectors
MaxMicrotasks == 1    \* restart() calls whose promise is pending

\* ------------------------------------------------------------- the world
Windows == {"w1", "w2"}
Emitters == {"e1", "e2"}
EventNames == {"first", "second"}
Callbacks == {"h1", "h2", "x"}

\* the (emitter, handlers) pairs connect() is called with; a handlers object
\* is its own keys in insertion order, the order Object.keys() yields, each
\* with its callback
Bindings ==
  { [emitter |-> "e1", handlers |-> << <<"first", "h1">> >>],
    [emitter |-> "e1", handlers |-> << <<"second", "h1">>, <<"first", "h2">> >>],
    [emitter |-> "e2", handlers |-> << <<"first", "h1">>, <<"second", "h2">> >>] }

\* (event, ...args) tuples given to broadcast()
Payloads == { <<"event">>, <<"event", 123, "ABC">> }

\* the messages of the source, written without its backquotes
ClassName == "EventDispatcher"
ConnectError == "connecting emitter handlers to a running dispatcher"
DisconnectError == "disconnecting emitter handlers from a running dispatcher"
StartWarning == <<"the %s dispatcher is already running", ClassName>>
StopWarning ==
  <<"unable to #stop the %s, the dispatcher is not running", ClassName>>

\* listeners that parties other than the dispatcher hold on the emitters
\* before the dispatcher is used: e1 has one on "first" that is the very
\* callback a handlers object names, and a foreign one on "second"
OtherListeners ==
  [e \in Emitters |->
     [ev \in EventNames |->
        IF e = "e1" /\ ev = "first" THEN <<"h1">>
        ELSE IF e = "e1" /\ ev = "second" THEN <<"x">>
        ELSE <<>>]]

VARIABLES
  windows,          \* this.windows
  connectors,       \* this.connectors: records [emitter, handlers]
  running,          \* this.running
  closedListeners,  \* per window, the 'closed' listeners attach() has added
  listeners,        \* per emitter and event name, its listener array
  microtasks,       \* promise jobs of restart() calls, oldest first
  last              \* the latest call: what was called and what it did

vars ==
  <<windows, connectors, running, closedListeners, listeners, microtasks, last>>

\* ------------------------------------------------------------ sequences
RECURSIVE Count(_, _)
Count(s, x) ==
  IF s = <<>> THEN 0
  ELSE (IF Head(s) = x THEN 1 ELSE 0) + Count(Tail(s), x)

\* Array.prototype.indexOf: the first index holding x, or 0 when absent
RECURSIVE IndexFrom(_, _, _)
IndexFrom(s, x, i) ==
  IF i > Len(s) THEN 0
  ELSE IF s[i] = x THEN i
  ELSE IndexFrom(s, x, i + 1)

IndexOf(s, x) == IndexFrom(s, x, 1)

\* the last index holding x, or 0 when absent
RECURSIVE LastIndexFrom(_, _, _)
LastIndexFrom(s, x, i) ==
  IF i < 1 THEN 0
  ELSE IF s[i] = x THEN i
  ELSE LastIndexFrom(s, x, i - 1)

\* Array.prototype.splice(index, 1)
Splice(s, i) == SubSeq(s, 1, i - 1) \o SubSeq(s, i + 1, Len(s))

\* ------------------------------------------------------------- emitters
\* EventEmitter.on: appends, whether or not the listener is already there
On(ls, e, ev, cb) == [ls EXCEPT ![e][ev] = Append(@, cb)]

\* a removal that drops every instance of the listener
RemoveEveryListener(ls, e, ev, cb) ==
  [ls EXCEPT ![e][ev] = SelectSeq(@, LAMBDA l : l # cb)]

\* EventEmitter.removeListener: removes the most recently added instance
RemoveListener(ls, e, ev, cb) ==
  LET i == LastIndexFrom(ls[e][ev], cb, Len(ls[e][ev]))
  IN IF i = 0 THEN ls ELSE [ls EXCEPT ![e][ev] = Splice(@, i)]

\* EventEmitter.emit: the callbacks an emit of ev on e calls, in call order
\* (the listener array as it is when emit is called)
emit(ls, e, ev) == ls[e][ev]

\* the (emitter, event, callback) triples the two loops of start() and of
\* stop() visit, in the order they visit them
RECURSIVE HandlerCalls(_, _)
HandlerCalls(emitter, handlers) ==
  IF handlers = <<>> THEN <<>>
  ELSE << <<emitter, Head(handlers)[1], Head(handlers)[2]>> >>
       \o HandlerCalls(emitter, Tail(handlers))

RECURSIVE ConnectorCalls(_)
ConnectorCalls(cs) ==
  IF cs = <<>> THEN <<>>
  ELSE HandlerCalls(Head(cs).emitter, Head(cs).handlers)
       \o ConnectorCalls(Tail(cs))

RECURSIVE OnAll(_, _)
OnAll(ls, calls) ==
  IF calls = <<>> THEN ls
  ELSE OnAll(On(ls, Head(calls)[1], Head(calls)[2], Head(calls)[3]),
             Tail(calls))

RECURSIVE RemoveAll(_, _)
RemoveAll(ls, calls) ==
  IF calls = <<>> THEN ls
  ELSE RemoveAll(RemoveListener(ls, Head(calls)[1], Head(calls)[2],
                                Head(calls)[3]),
                 Tail(calls))

RECURSIVE Tagged(_, _)
Tagged(tag, calls) ==
  IF calls = <<>> THEN <<>>
  ELSE << <<tag>> \o Head(calls) >> \o Tagged(tag, Tail(calls))

\* --------------------------------------------------------------- calls
NoWarning == <<>>

Call(op, args) ==
  [op |-> op, args |-> args, error |-> "", warning |-> NoWarning,
   calls |-> <<>>, value |-> <<>>]

Init ==
  /\ windows = <<>>
  /\ connectors = <<>>
  /\ running = FALSE
  /\ closedListeners = [w \in Windows |-> 0]
  /\ listeners = OtherListeners
  /\ microtasks = <<>>
  /\ last = Call("new", <<>>)

\* ------------------------------------------------------------- windows
\* detach() splicing one place too far
detachOffByOne(ws, w) ==
  LET index == IndexOf(ws, w)
  IN IF index # 0 THEN Splice(ws, index + 1) ELSE ws

\* detach() without the test of the index: splice(-1, 1) drops the last entry
detachUnchecked(ws, w) ==
  LET index == IndexOf(ws, w)
  IN IF index # 0 THEN Splice(ws, index) ELSE SubSeq(ws, 1, Len(ws) - 1)

\* detach() searching with lastIndexOf
detachLast(ws, w) ==
  LET index == LastIndexFrom(ws, w, Len(ws))
  IN IF index # 0 THEN Splice(ws, index) ELSE ws

detach(ws, w) ==
  LET index == IndexOf(ws, w)
  IN IF index # 0 THEN Splice(ws, index) ELSE ws

\* the attach() calls made so far: each one has added a 'closed' listener
RECURSIVE SumOver(_, _)
SumOver(f, S) ==
  IF S = {} THEN 0
  ELSE LET x == CHOOSE y \in S : TRUE IN f[x] + SumOver(f, S \ {x})

Attached == SumOver(closedListeners, Windows)

Attach(w) ==
  /\ Attached < MaxAttach
  /\ windows' = Append(windows, w)
  /\ closedListeners' = [closedListeners EXCEPT ![w] = @ + 1]
  /\ last' = Call("attach", <<w>>)
  /\ UNCHANGED <<connectors, running, listeners, microtasks>>

Detach(w) ==
  /\ windows' = detach(windows, w)
  /\ last' = Call("detach", <<w>>)
  /\ UNCHANGED <<connectors, running, closedListeners, listeners, microtasks>>

\* window.emit('closed'): every listener attach() added calls detach(window)
RECURSIVE detachTimes(_, _, _)
detachTimes(ws, w, n) ==
  IF n = 0 THEN ws ELSE detachTimes(detach(ws, w), w, n - 1)

\* a 'closed' notification that calls detach(window) a single time
ClosedDetachesOnce(w) ==
  /\ windows' = detach(windows, w)
  /\ last' = Call("closed", <<w>>)
  /\ UNCHANGED <<connectors, running, closedListeners, listeners, microtasks>>

Closed(w) ==
  /\ windows' = detachTimes(windows, w, closedListeners[w])
  /\ last' = Call("closed", <<w>>)
  /\ UNCHANGED <<connectors, running, closedListeners, listeners, microtasks>>

\* the for-of loop of broadcast(): the array iterator reads this.windows by
\* index and tests the length before every step
RECURSIVE sendFrom(_, _, _)
sendFrom(ws, i, payload) ==
  IF i > Len(ws) THEN <<>>
  ELSE << <<"send", ws[i], payload>> >> \o sendFrom(ws, i + 1, payload)

\* a broadcast() that passes the event name and drops the arguments
BroadcastEventOnly(payload) ==
  /\ last' = [Call("broadcast", payload) EXCEPT
                !.calls = sendFrom(windows, 1, <<payload[1]>>)]
  /\ UNCHANGED <<windows, connectors, running, closedListeners, listeners,
                 microtasks>>

Broadcast(payload) ==
  /\ last' = [Call("broadcast", payload) EXCEPT
                !.calls = sendFrom(windows, 1, payload)]
  /\ UNCHANGED <<windows, connectors, running, closedListeners, listeners,
                 microtasks>>

\* ------------------------------------------------------------- emitters
\* a connect() without the test of this.running
ConnectUnguarded(e, h) ==
  /\ Len(connectors) < MaxConnectors
  /\ connectors' = Append(connectors, [emitter |-> e, handlers |-> h])
  /\ last' = Call("connect", <<e, h>>)
  /\ UNCHANGED <<windows, running, closedListeners, listeners, microtasks>>

\* a connect() that also refuses while a restart() has its start() pending
ConnectRejectsPending(e, h) ==
  /\ running \/ Len(connectors) < MaxConnectors
  /\ IF running \/ microtasks # <<>>
     THEN /\ last' = [Call("connect", <<e, h>>) EXCEPT !.error = ConnectError]
          /\ UNCHANGED connectors
     ELSE /\ connectors' = Append(connectors, [emitter |-> e, handlers |-> h])
          /\ last' = Call("connect", <<e, h>>)
  /\ UNCHANGED <<windows, running, closedListeners, listeners, microtasks>>

Connect(e, h) ==
  /\ running \/ Len(connectors) < MaxConnectors
  /\ IF running
     THEN /\ last' = [Call("connect", <<e, h>>) EXCEPT !.error = ConnectError]
          /\ UNCHANGED connectors
     ELSE /\ connectors' = Append(connectors, [emitter |-> e, handlers |-> h])
          /\ last' = Call("connect", <<e, h>>)
  /\ UNCHANGED <<windows, running, closedListeners, listeners, microtasks>>

\* Array.prototype.findIndex(connector => connector.emitter === emitter)
RECURSIVE FindEmitterFrom(_, _, _)
FindEmitterFrom(cs, e, i) ==
  IF i > Len(cs) THEN 0
  ELSE IF cs[i].emitter = e THEN i
  ELSE FindEmitterFrom(cs, e, i + 1)

\* a disconnect() whose search never matches (it compares the connector,
\* not its emitter, with the argument)
disconnectNeverMatches(cs, e) == cs

\* Array.prototype.findLastIndex in the place of findIndex
RECURSIVE FindLastEmitterFrom(_, _, _)
FindLastEmitterFrom(cs, e, i) ==
  IF i < 1 THEN 0
  ELSE IF cs[i].emitter = e THEN i
  ELSE FindLastEmitterFrom(cs, e, i - 1)

\* a disconnect() that removes the last binding of the emitter
disconnectLast(cs, e) ==
  LET index == FindLastEmitterFrom(cs, e, Len(cs))
  IN IF index # 0 THEN Splice(cs, index) ELSE cs

disconnect(cs, e) ==
  LET index == FindEmitterFrom(cs, e, 1)
  IN IF index # 0 THEN Splice(cs, index) ELSE cs

Disconnect(e) ==
  /\ IF running
     THEN /\ last' = [Call("disconnect", <<e>>) EXCEPT
                        !.error = DisconnectError]
          /\ UNCHANGED connectors
     ELSE /\ connectors' = disconnect(connectors, e)
          /\ last' = Call("disconnect", <<e>>)
  /\ UNCHANGED <<windows, running, closedListeners, listeners, microtasks>>

\* ------------------------------------------------------------ lifecycle
\* start() and stop() below yield what the call leaves behind: the flag, the
\* listener arrays, the warning it logged and the emitter calls it made

\* a start() without the test of this.running
startUnguarded(cs, run, ls) ==
  [running |-> TRUE, listeners |-> OnAll(ls, ConnectorCalls(cs)),
   warning |-> NoWarning, calls |-> Tagged("on", ConnectorCalls(cs))]

\* a start() that flips the flag when the dispatcher is already running
startToggles(cs, run, ls) ==
  IF run
  THEN [running |-> FALSE, listeners |-> ls, warning |-> StartWarning,
        calls |-> <<>>]
  ELSE [running |-> TRUE, listeners |-> OnAll(ls, ConnectorCalls(cs)),
        warning |-> NoWarning, calls |-> Tagged("on", ConnectorCalls(cs))]

\* a start() that sets the flag and leaves the registration for later
startFlagOnly(cs, run, ls) ==
  IF run
  THEN [running |-> run, listeners |-> ls, warning |-> StartWarning,
        calls |-> <<>>]
  ELSE [running |-> TRUE, listeners |-> ls, warning |-> NoWarning,
        calls |-> <<>>]

start(cs, run, ls) ==
  IF run
  THEN [running |-> run, listeners |-> ls, warning |-> StartWarning,
        calls |-> <<>>]
  ELSE [running |-> TRUE, listeners |-> OnAll(ls, ConnectorCalls(cs)),
        warning |-> NoWarning, calls |-> Tagged("on", ConnectorCalls(cs))]

\* a stop() that clears the flag and leaves the listeners registered
stopKeepsListeners(cs, run, ls) ==
  IF ~run
  THEN [running |-> run, listeners |-> ls, warning |-> StopWarning,
        calls |-> <<>>]
  ELSE [running |-> FALSE, listeners |-> ls, warning |-> NoWarning,
        calls |-> <<>>]

\* a stop() that returns without a warning when the dispatcher is stopped
stopSilent(cs, run, ls) ==
  IF ~run
  THEN [running |-> run, listeners |-> ls, warning |-> NoWarning,
        calls |-> <<>>]
  ELSE [running |-> FALSE, listeners |-> RemoveAll(ls, ConnectorCalls(cs)),
        warning |-> NoWarning,
        calls |-> Tagged("removeListener", ConnectorCalls(cs))]

stop(cs, run, ls) ==
  IF ~run
  THEN [running |-> run, listeners |-> ls, warning |-> StopWarning,
        calls |-> <<>>]
  ELSE [running |-> FALSE, listeners |-> RemoveAll(ls, ConnectorCalls(cs)),
        warning |-> NoWarning,
        calls |-> Tagged("removeListener", ConnectorCalls(cs))]

Start ==
  LET s == start(connectors, running, listeners)
  IN /\ running' = s.running
     /\ listeners' = s.listeners
     /\ last' = [Call("start", <<>>) EXCEPT
                   !.warning = s.warning, !.calls = s.calls]
     /\ UNCHANGED <<windows, connectors, closedListeners, microtasks>>

\* a stop() that also empties this.connectors
StopForgetsConnectors ==
  LET s == stop(connectors, running, listeners)
  IN /\ running' = s.running
     /\ listeners' = s.listeners
     /\ connectors' = (IF running THEN <<>> ELSE connectors)
     /\ last' = [Call("stop", <<>>) EXCEPT
                   !.warning = s.warning, !.calls = s.calls]
     /\ UNCHANGED <<windows, closedListeners, microtasks>>

\* a stop() that also drops the jobs restart() calls have left
StopCancelsPending ==
  LET s == stop(connectors, running, listeners)
  IN /\ running' = s.running
     /\ listeners' = s.listeners
     /\ microtasks' = <<>>
     /\ last' = [Call("stop", <<>>) EXCEPT
                   !.warning = s.warning, !.calls = s.calls]
     /\ UNCHANGED <<windows, connectors, closedListeners>>

Stop ==
  LET s == stop(connectors, running, listeners)
  IN /\ running' = s.running
     /\ listeners' = s.listeners
     /\ last' = [Call("stop", <<>>) EXCEPT
                   !.warning = s.warning, !.calls = s.calls]
     /\ UNCHANGED <<windows, connectors, closedListeners, microtasks>>

\* a restart() that calls start() without waiting for its turn
RestartStartsAtOnce ==
  LET s == stop(connectors, running, listeners)
      t == start(connectors, s.running, s.listeners)
  IN /\ Len(microtasks) < MaxMicrotasks
     /\ running' = t.running
     /\ listeners' = t.listeners
     /\ microtasks' = Append(microtasks, "settle")
     /\ last' = [Call("restart", <<>>) EXCEPT
                   !.warning = s.warning, !.calls = s.calls \o t.calls]
     /\ UNCHANGED <<windows, connectors, closedListeners>>

\* restart() up to its return: stop() has run and the callback given to
\* then() waits in the job queue ("then"); once that has run, the resolution
\* of the promise restart() returned waits there ("settle")
Restart ==
  LET s == stop(connectors, running, listeners)
  IN /\ Len(microtasks) < MaxMicrotasks
     /\ running' = s.running
     /\ listeners' = s.listeners
     /\ microtasks' = Append(microtasks, "then")
     /\ last' = [Call("restart", <<>>) EXCEPT
                   !.warning = s.warning, !.calls = s.calls]
     /\ UNCHANGED <<windows, connectors, closedListeners>>

\* a then-callback that registers without looking at this.running
RestartThenUnguarded ==
  LET s == startUnguarded(connectors, running, listeners)
  IN /\ microtasks # <<>>
     /\ Head(microtasks) = "then"
     /\ running' = s.running
     /\ listeners' = s.listeners
     /\ microtasks' = Append(Tail(microtasks), "settle")
     /\ last' = [Call("restart.then", <<>>) EXCEPT
                   !.warning = s.warning, !.calls = s.calls]
     /\ UNCHANGED <<windows, connectors, closedListeners>>

\* the oldest job of a restart(): () => this.start()
RestartThen ==
  LET s == start(connectors, running, listeners)
  IN /\ microtasks # <<>>
     /\ Head(microtasks) = "then"
     /\ running' = s.running
     /\ listeners' = s.listeners
     /\ microtasks' = Append(Tail(microtasks), "settle")
     /\ last' = [Call("restart.then", <<>>) EXCEPT
                   !.warning = s.warning, !.calls = s.calls]
     /\ UNCHANGED <<windows, connectors, closedListeners>>

\* the promise restart() returned resolves
RestartResolved ==
  /\ microtasks # <<>>
  /\ Head(microtasks) = "settle"
  /\ microtasks' = Tail(microtasks)
  /\ last' = Call("restart.resolved", <<>>)
  /\ UNCHANGED <<windows, connectors, running, closedListeners, listeners>>

IsRunning ==
  /\ last' = [Call("isRunning", <<>>) EXCEPT !.value = <<running>>]
  /\ UNCHANGED <<windows, connectors, running, closedListeners, listeners,
                 microtasks>>

Next ==
  \/ \E w \in Windows : Attach(w)
  \/ \E w \in Windows : Detach(w)
  \/ \E w \in Windows : Closed(w)
  \/ \E p \in Payloads : Broadcast(p)
  \/ \E b \in Bindings : Connect(b.emitter, b.handlers)
  \/ \E e \in Emitters : Disconnect(e)
  \/ Start
  \/ Stop
  \/ Restart
  \/ RestartThen
  \/ RestartResolved
  \/ IsRunning

Spec == Init /\ [][Next]_vars

\* the same program used by callers that wait for the promise of a restart()
\* before they call start(), stop() or restart() again
NextAwaited ==
  \/ \E w \in Windows : Attach(w)
  \/ \E w \in Windows : Detach(w)
  \/ \E w \in Windows : Closed(w)
  \/ \E p \in Payloads : Broadcast(p)
  \/ \E b \in Bindings : Connect(b.emitter, b.handlers)
  \/ \E e \in Emitters : Disconnect(e)
  \/ microtasks = <<>> /\ Start
  \/ microtasks = <<>> /\ Stop
  \/ microtasks = <<>> /\ Restart
  \/ RestartThen
  \/ RestartResolved
  \/ IsRunning

SpecAwaited == Init /\ [][NextAwaited]_vars

\* ------------------------------------------ the emitter side by itself
\* a dispatcher no window is attached to and restart() is not called on
NextEmitters ==
  \/ \E b \in Bindings : Connect(b.emitter, b.handlers)
  \/ \E e \in Emitters : Disconnect(e)
  \/ Start
  \/ Stop
  \/ IsRunning

SpecEmitters == Init /\ [][NextEmitters]_vars

\* ----------------------------------------- lifecycle calls that overlap
\* a dispatcher no window is attached to, whose callers do not wait for the
\* promise of one lifecycle call before they make the next
NextLifecycle ==
  \/ \E b \in Bindings : Connect(b.emitter, b.handlers)
  \/ \E e \in Emitters : Disconnect(e)
  \/ Start
  \/ Stop
  \/ Restart
  \/ RestartThen
  \/ RestartResolved

SpecLifecycle == Init /\ [][NextLifecycle]_vars

\* the job queue is run whenever the code that is running has returned: a
\* job at its head does not wait for ever
SpecLifecycleFair ==
  SpecLifecycle /\ WF_vars(RestartThen) /\ WF_vars(RestartResolved)

\* ------------------------------------------- windows whose send does more
MaxWindowAttach == 3  \* attach() calls made in all, in SpecWindows

\* what the send of a window does when broadcast() calls it: it returns, it
\* throws, or it calls detach() of a window on this dispatcher and returns
SendBehaviours ==
  {<<"return">>, <<"throw">>} \cup {<<"detach", w>> : w \in Windows}

SendError == "send failed"

AttachWindow(w) ==
  /\ Attached < MaxWindowAttach
  /\ windows' = Append(windows, w)
  /\ closedListeners' = [closedListeners EXCEPT ![w] = @ + 1]
  /\ last' = Call("attach", <<w>>)
  /\ UNCHANGED <<connectors, running, listeners, microtasks>>

\* the for-of loop of broadcast() from index i on, over the array as the
\* sends so far have left it: the length is read anew before every step, and
\* a send that throws ends the loop. Yields this.windows, the calls made
\* (each send, and after it what it did) and the error that left broadcast()
RECURSIVE sendLoop(_, _, _, _, _)
sendLoop(ws, i, payload, does, calls) ==
  IF i > Len(ws) THEN [windows |-> ws, calls |-> calls, error |-> ""]
  ELSE LET w == ws[i]
           sent == Append(calls, <<"send", w, payload>>)
       IN IF does[w] = <<"throw">>
          THEN [windows |-> ws, calls |-> Append(sent, <<"throw", w>>),
                error |-> SendError]
          ELSE IF does[w][1] = "detach"
          THEN sendLoop(detach(ws, does[w][2]), i + 1, payload, does,
                        Append(sent, does[w]))
          ELSE sendLoop(ws, i + 1, payload, does, sent)

\* a broadcast() that detaches the window whose send threw
BroadcastDetachesFailing(payload, does) ==
  LET r == sendLoop(windows, 1, payload, does, <<>>)
  IN /\ windows' = (IF r.error = "" THEN r.windows
                    ELSE detach(r.windows, r.calls[Len(r.calls)][2]))
     /\ last' = [Call("broadcast", payload) EXCEPT
                   !.calls = r.calls, !.error = r.error]
     /\ UNCHANGED <<connectors, running, closedListeners, listeners,
                    microtasks>>

BroadcastTo(payload, does) ==
  LET r == sendLoop(windows, 1, payload, does, <<>>)
  IN /\ windows' = r.windows
     /\ last' = [Call("broadcast", payload) EXCEPT
                   !.calls = r.calls, !.error = r.error]
     /\ UNCHANGED <<connectors, running, closedListeners, listeners,
                    microtasks>>

NextWindows ==
  \/ \E w \in Windows : AttachWindow(w)
  \/ \E w \in Windows : Detach(w)
  \/ \E w \in Windows : Closed(w)
  \/ \E p \in Payloads, does \in [Windows -> SendBehaviours] :
       BroadcastTo(p, does)

SpecWindows == Init /\ [][NextWindows]_vars

\* ------------------------------------------------- emitter calls that throw
MaxListeners == 4  \* entries of all listener arrays a failing start() leaves

EmitterError == "emitter failed"

TotalListeners ==
  SumOver([e \in Emitters |->
             SumOver([ev \in EventNames |-> Len(listeners[e][ev])], EventNames)],
          Emitters)

\* a start() whose k-th emitter.on() throws, with the flag set before the loop
startFailingFlagFirst(cs, run, ls, k) ==
  LET done == SubSeq(ConnectorCalls(cs), 1, k - 1)
  IN [running |-> TRUE, listeners |-> OnAll(ls, done), warning |-> NoWarning,
      calls |-> Tagged("on", done)
                  \o Tagged("throw", <<ConnectorCalls(cs)[k]>>),
      error |-> EmitterError]

\* start() on a stopped dispatcher whose k-th emitter.on() throws and
\* registers nothing: the calls before it have been made, the loop and the
\* method are left there, and the assignment to this.running is not reached
startFailing(cs, run, ls, k) ==
  LET done == SubSeq(ConnectorCalls(cs), 1, k - 1)
  IN [running |-> run, listeners |-> OnAll(ls, done), warning |-> NoWarning,
      calls |-> Tagged("on", done)
                  \o Tagged("throw", <<ConnectorCalls(cs)[k]>>),
      error |-> EmitterError]

\* stop() on a running dispatcher whose k-th emitter.removeListener() throws
\* and removes nothing
stopFailing(cs, run, ls, k) ==
  LET done == SubSeq(ConnectorCalls(cs), 1, k - 1)
  IN [running |-> run, listeners |-> RemoveAll(ls, done), warning |-> NoWarning,
      calls |-> Tagged("removeListener", done)
                  \o Tagged("throw", <<ConnectorCalls(cs)[k]>>),
      error |-> EmitterError]

StartFails(k) ==
  LET s == startFailing(connectors, running, listeners, k)
  IN /\ ~running
     /\ k \in 1..Len(ConnectorCalls(connectors))
     /\ TotalListeners + (k - 1) <= MaxListeners
     /\ running' = s.running
     /\ listeners' = s.listeners
     /\ last' = [Call("start", <<>>) EXCEPT
                   !.calls = s.calls, !.error = s.error]
     /\ UNCHANGED <<windows, connectors, closedListeners, microtasks>>

StopFails(k) ==
  LET s == stopFailing(connectors, running, listeners, k)
  IN /\ running
     /\ k \in 1..Len(ConnectorCalls(connectors))
     /\ running' = s.running
     /\ listeners' = s.listeners
     /\ last' = [Call("stop", <<>>) EXCEPT
                   !.calls = s.calls, !.error = s.error]
     /\ UNCHANGED <<windows, connectors, closedListeners, microtasks>>

NextFailing ==
  \/ \E b \in Bindings : Connect(b.emitter, b.handlers)
  \/ Start
  \/ Stop
  \/ \E k \in 1..(2 * MaxConnectors) : StartFails(k)
  \/ \E k \in 1..(2 * MaxConnectors) : StopFails(k)

SpecFailing == Init /\ [][NextFailing]_vars

\* ------------------------------------------ windows whose send attaches
\* broadcast() taken one step of its for-of loop at a time, with sends that
\* return or call attach() of a window on this dispatcher and return. While
\* the loop runs, last holds the call under the name "broadcasting" and the
\* calls made so far; nothing else runs until the loop is left.
AttachBehaviours == {<<"return">>} \cup {<<"attach", w>> : w \in Windows}

Broadcasting == last.op = "broadcasting"

\* the send() calls made so far: the loop's next index is one more
Sends(calls) == Cardinality({i \in 1..Len(calls) : calls[i][1] = "send"})

\* the attach() calls the sends have made so far
Attaches(calls) == Cardinality({i \in 1..Len(calls) : calls[i][1] = "attach"})

\* a loop over the array as long as it was when broadcast() was called
LoopLengthAtCall == Len(windows) - Attaches(last.calls)

\* the length the iterator of for-of reads before each step: that of
\* this.windows as it is then
LoopLength == Len(windows)

BroadcastBegin(payload) ==
  /\ ~Broadcasting
  /\ last' = Call("broadcasting", payload)
  /\ UNCHANGED <<windows, connectors, running, closedListeners, listeners,
                 microtasks>>

BroadcastSend(does) ==
  LET i == Sends(last.calls) + 1
      sent == Append(last.calls, <<"send", windows[i], last.args>>)
  IN /\ Broadcasting
     /\ i <= LoopLength
     /\ IF does[1] = "attach"
        THEN /\ Attached < MaxWindowAttach
             /\ windows' = Append(windows, does[2])
             /\ closedListeners' = [closedListeners EXCEPT ![does[2]] = @ + 1]
             /\ last' = [last EXCEPT !.calls = Append(sent, does)]
        ELSE /\ last' = [last EXCEPT !.calls = sent]
             /\ UNCHANGED <<windows, closedListeners>>
     /\ UNCHANGED <<connectors, running, listeners, microtasks>>

BroadcastEnd ==
  /\ Broadcasting
  /\ Sends(last.calls) + 1 > LoopLength
  /\ last' = [last EXCEPT !.op = "broadcast"]
  /\ UNCHANGED <<windows, connectors, running, closedListeners, listeners,
                 microtasks>>

BroadcastStep == \E does \in AttachBehaviours : BroadcastSend(does)

NextAttaching ==
  \/ \E w \in Windows : ~Broadcasting /\ AttachWindow(w)
  \/ \E w \in Windows : ~Broadcasting /\ Detach(w)
  \/ \E p \in Payloads : BroadcastBegin(p)
  \/ BroadcastStep
  \/ BroadcastEnd

\* the loop goes on as long as nothing stops it
SpecAttaching ==
  /\ Init /\ [][NextAttaching]_vars
  /\ WF_vars(BroadcastStep) /\ WF_vars(BroadcastEnd)

\* ---------------------------------------------------------- properties
core == <<windows, connectors, running, closedListeners, listeners, microtasks>>

\* the entries of this.connectors that name callback cb for event ev on e
Entries(cs, e, ev, cb) ==
  Cardinality({i \in 1..Len(cs) :
                 /\ cs[i].emitter = e
                 /\ \E j \in 1..Len(cs[i].handlers) :
                      cs[i].handlers[j] = <<ev, cb>>})

\* the registrations of cb for ev on e that are the dispatcher's: those in
\* the listener array beyond the ones other parties hold
Held(ls, e, ev, cb) == Count(ls[e][ev], cb) - Count(OtherListeners[e][ev], cb)

\* how many times an emit of ev on e calls cb on the dispatcher's account
Invoked(ls, e, ev, cb) ==
  Count(emit(ls, e, ev), cb) - Count(emit(OtherListeners, e, ev), cb)

\* every connected callback is registered once per entry that names it, and
\* nothing else is
RegisteredOnce(cs, ls) ==
  \A e \in Emitters, ev \in EventNames, cb \in Callbacks :
    Held(ls, e, ev, cb) = Entries(cs, e, ev, cb)

NoneRegistered(ls) ==
  \A e \in Emitters, ev \in EventNames, cb \in Callbacks : Held(ls, e, ev, cb) = 0

\* the calls to send() on w among the calls of a broadcast
SendsTo(calls, w) ==
  Cardinality({i \in 1..Len(calls) : calls[i][1] = "send" /\ calls[i][2] = w})

\* C1: in every reachable state, each (event, callback) of each entry of
\* this.connectors is registered on the entry's emitter once per entry while
\* running is true and not at all while it is false, so that an emit calls
\* the callback once per entry while Running and never while Stopped.
C1_RegisteredIffRunning ==
  \A e \in Emitters, ev \in EventNames, cb \in Callbacks :
    /\ Held(listeners, e, ev, cb) =
         (IF running THEN Entries(connectors, e, ev, cb) ELSE 0)
    /\ Invoked(listeners, e, ev, cb) =
         (IF running THEN Entries(connectors, e, ev, cb) ELSE 0)

C1_Witness ==
  /\ running
  /\ last.op = "start"
  /\ Len(connectors) = 2
  /\ connectors[1] = connectors[2]
  /\ Held(listeners, connectors[1].emitter, "first", "h1") = 2

\* C2: connect() and disconnect() called while running is true fail with
\* their error message, and the failed call changes neither this.windows,
\* this.connectors, this.running nor any emitter's listeners.
C2_RunningRejectsConnect ==
  [][/\ (last'.op = "connect" /\ running) =>
          (last'.error = ConnectError /\ UNCHANGED core)
     /\ (last'.op = "disconnect" /\ running) =>
          (last'.error = DisconnectError /\ UNCHANGED core)]_vars

C2_Witness ==
  /\ last.op = "disconnect"
  /\ last.error = DisconnectError
  /\ FindEmitterFrom(connectors, last.args[1], 1) # 0
  /\ running

\* C3: a broadcast(event, ...args) calls send once for each entry of
\* this.windows, in attachment order, each time with exactly (event, ...args);
\* with no window attached it calls nothing and does not fail.
C3_BroadcastReachesAll ==
  last.op = "broadcast" =>
    /\ last.error = ""
    /\ Len(last.calls) = Len(windows)
    /\ \A i \in 1..Len(windows) : last.calls[i] = <<"send", windows[i], last.args>>

C3_Witness ==
  /\ last.op = "broadcast"
  /\ Len(last.args) = 3
  /\ Len(windows) = 2
  /\ windows[1] # windows[2]
  /\ Len(last.calls) = 2

\* C4 as claimed, for the broadcast that directly follows the detach: once
\* detach(w) has returned, a broadcast does not call send on w.
C4_DetachedNeverSent ==
  [][(last.op = "detach" /\ last'.op = "broadcast") =>
       SendsTo(last'.calls, last.args[1]) = 0]_vars

\* C4 amended: detach(w) takes one occurrence of w out of this.windows, a
\* broadcast calls send on w once per occurrence left, so not at all when
\* none is left, and only attach(w) adds an occurrence.
C4_DetachedSentPerOccurrence ==
  [][\A w \in Windows :
       /\ (last'.op = "detach" /\ last'.args = <<w>>) =>
            Count(windows', w) =
              (IF Count(windows, w) = 0 THEN 0 ELSE Count(windows, w) - 1)
       /\ last'.op = "broadcast" => SendsTo(last'.calls, w) = Count(windows, w)
       /\ Count(windows', w) > Count(windows, w) =>
            (last'.op = "attach" /\ last'.args = <<w>>)]_vars

C4_Witness ==
  /\ last.op = "broadcast"
  /\ last.calls # <<>>
  /\ \E w \in Windows :
       closedListeners[w] > 0 /\ Count(windows, w) = 0 /\ SendsTo(last.calls, w) = 0

\* C5: once a window's 'closed' notification has been handled the window has
\* no occurrence left in this.windows, however often it was attached and
\* detached before, and a broadcast calls send only on windows that have
\* one; an occurrence leaves this.windows only by detach() of that window or
\* by its 'closed' notification.
C5_ClosedRemovesAll ==
  [][\A w \in Windows :
       /\ (last'.op = "closed" /\ last'.args = <<w>>) => Count(windows', w) = 0
       /\ (last'.op = "broadcast" /\ Count(windows, w) = 0) =>
            SendsTo(last'.calls, w) = 0
       /\ Count(windows', w) < Count(windows, w) =>
            (last'.op \in {"detach", "closed"} /\ last'.args = <<w>>)]_vars

C5_Witness ==
  /\ last.op = "closed"
  /\ closedListeners[last.args[1]] = 2
  /\ Count(windows, last.args[1]) = 0

\* C6: start() called while the dispatcher is running registers nothing and
\* leaves running true: every connected callback is still registered once
\* per entry, so an emit calls it once and not twice.
C6_SecondStartRegistersNothing ==
  [][(last'.op = "start" /\ running) =>
       /\ running'
       /\ last'.calls = <<>>
       /\ listeners' = listeners
       /\ RegisteredOnce(connectors', listeners')
       /\ \A e \in Emitters, ev \in EventNames, cb \in Callbacks :
            Invoked(listeners', e, ev, cb) = Entries(connectors', e, ev, cb)]_vars

C6_Witness ==
  /\ last.op = "start"
  /\ last.warning = StartWarning
  /\ running
  /\ connectors # <<>>
  /\ Invoked(listeners, connectors[1].emitter, "first", connectors[1].handlers[1][2]) = 1

\* the calls among calls that are exactly call c
CallsOf(calls, c) == Cardinality({i \in 1..Len(calls) : calls[i] = c})

\* C7: stop() on a running dispatcher, called by itself or as the first half
\* of restart(), reverses start(): it calls
\* removeListener with the event name and callback of every registration the
\* dispatcher holds, after which every listener array is what it was before
\* start() (the listeners of other parties, in their order), no connected
\* callback is called by an emit, and running is false.
C7_StopReversesStart ==
  [][(last'.op \in {"stop", "restart"} /\ running) =>
       /\ ~running'
       /\ listeners' = OtherListeners
       /\ \A e \in Emitters, ev \in EventNames, cb \in Callbacks :
            /\ CallsOf(last'.calls, <<"removeListener", e, ev, cb>>) =
                 Held(listeners, e, ev, cb)
            /\ Invoked(listeners', e, ev, cb) = 0
       /\ Len(last'.calls) = Len(ConnectorCalls(connectors))]_vars

C7_Witness ==
  /\ last.op = "stop"
  /\ ~running
  /\ Len(connectors) = 2
  /\ connectors[1] = connectors[2]
  /\ connectors[1].emitter = "e1"
  /\ Len(last.calls) = 2 * Len(connectors[1].handlers)
  /\ listeners = OtherListeners

\* C8: restart() runs stop() before it returns and start() only in a later
\* job; when no other start(), stop() or restart() is made until its promise
\* has resolved, the dispatcher is then running with every connected callback
\* registered once, whether restart() was called running or stopped.
C8_RestartStopsThenStarts ==
  /\ last.op = "restart" =>
       /\ ~running
       /\ NoneRegistered(listeners)
       /\ microtasks = <<"then">>
  /\ last.op = "restart.then" =>
       /\ running
       /\ microtasks = <<"settle">>
  /\ last.op = "restart.resolved" =>
       /\ running
       /\ RegisteredOnce(connectors, listeners)
       /\ microtasks = <<>>

C8_Witness ==
  /\ last.op = "restart.resolved"
  /\ running
  /\ Len(connectors) = 2
  /\ Held(listeners, connectors[1].emitter, "first", connectors[1].handlers[1][2]) > 0

\* C9: running is false for a new dispatcher, becomes true only by a start()
\* executed while stopped and false only by a stop() executed while running;
\* no other operation changes it, and isRunning() returns it and changes
\* nothing.
C9_RunStateMachine ==
  [][/\ last.op = "new" => ~running
     /\ (~running /\ running') => last'.op \in {"start", "restart.then"}
     /\ (running /\ ~running') => last'.op \in {"stop", "restart"}
     /\ last'.op \in {"attach", "detach", "closed", "broadcast", "connect",
                      "disconnect", "isRunning", "restart.resolved"} =>
          running' = running
     /\ last'.op = "isRunning" =>
          (last'.value = <<running>> /\ UNCHANGED core)]_vars

C9_Witness ==
  /\ last.op = "isRunning"
  /\ last.value = <<TRUE>>
  /\ windows # <<>>
  /\ connectors # <<>>
  /\ microtasks # <<>>

\* C10: detach(w) of a window with no occurrence in this.windows, never
\* attached or already detached, raises nothing and leaves this.windows,
\* this.connectors and this.running as they were, in either run state.
C10_DetachAbsentIsNoop ==
  [][\A w \in Windows :
       (last'.op = "detach" /\ last'.args = <<w>> /\ Count(windows, w) = 0) =>
         (last'.error = "" /\ UNCHANGED core)]_vars

C10_Witness ==
  /\ last.op = "detach"
  /\ closedListeners[last.args[1]] = 0
  /\ windows # <<>>
  /\ connectors # <<>>
  /\ running

\* the entries of this.connectors whose emitter is e
EntriesOf(cs, e) == Cardinality({i \in 1..Len(cs) : cs[i].emitter = e})

\* C11: while stopped, disconnect(e) with no binding for e raises nothing and
\* changes nothing; and a disconnect(e) that directly follows the connect(e, h)
\* that made the only binding for e leaves none of them, so that a start()
\* registers none of the callbacks of h on e and an emit on e calls none.
C11_DisconnectUndoesConnect ==
  [][\A e \in Emitters :
       (last'.op = "disconnect" /\ last'.args = <<e>> /\ ~running) =>
         /\ last'.error = ""
         /\ EntriesOf(connectors, e) = 0 => UNCHANGED core
         /\ (last.op = "connect" /\ last.args[1] = e /\ last.error = ""
               /\ EntriesOf(connectors, e) = 1) =>
              /\ EntriesOf(connectors', e) = 0
              /\ Len(connectors') = Len(connectors) - 1
              /\ LET s == start(connectors', running', listeners')
                 IN \A ev \in EventNames, cb \in Callbacks :
                      /\ Held(s.listeners, e, ev, cb) = 0
                      /\ Invoked(s.listeners, e, ev, cb) = 0]_vars

C11_Witness ==
  /\ last.op = "disconnect"
  /\ last.error = ""
  /\ ~running
  /\ EntriesOf(connectors, last.args[1]) = 0
  /\ connectors # <<>>

\* C12: start() warns exactly when the dispatcher is running and stop()
\* exactly when it is stopped, each with its own message carrying the name of
\* the dispatcher's class; the call that warns raises nothing and changes
\* nothing, and the call that does its work logs no warning.
C12_WarningIffNoop ==
  [][/\ last'.op = "start" =>
          /\ last'.warning = (IF running THEN StartWarning ELSE NoWarning)
          /\ last'.error = ""
          /\ running => UNCHANGED core
     /\ last'.op = "stop" =>
          /\ last'.warning = (IF running THEN NoWarning ELSE StopWarning)
          /\ last'.error = ""
          /\ ~running => UNCHANGED core
     /\ StartWarning # StopWarning
     /\ StartWarning[2] = ClassName /\ StopWarning[2] = ClassName]_vars

C12_Witness ==
  /\ last.op = "stop"
  /\ last.warning = StopWarning
  /\ ~running
  /\ connectors # <<>>

\* the calls of a broadcast are sends that returned and did nothing else
Plain(calls) == \A i \in 1..Len(calls) : calls[i][1] = "send"

\* C13: attach(w) appends one occurrence of w at the end of this.windows even
\* when w is there already; detach(w) removes the first occurrence of w and
\* leaves every other entry in place and in order; a broadcast calls send on
\* w once per occurrence, so w attached k times and detached j <= k times is
\* sent each broadcast k - j times.
C13_AppendAndRemoveFirst ==
  [][\A w \in Windows :
       /\ (last'.op = "attach" /\ last'.args = <<w>>) =>
            windows' = windows \o <<w>>
       /\ (last'.op = "detach" /\ last'.args = <<w>>) =>
            IF Count(windows, w) = 0 THEN windows' = windows
            ELSE \E i \in 1..Len(windows) :
                   /\ windows[i] = w
                   /\ \A j \in 1..(i - 1) : windows[j] # w
                   /\ Len(windows') = Len(windows) - 1
                   /\ \A j \in 1..Len(windows') :
                        windows'[j] = (IF j < i THEN windows[j] ELSE windows[j + 1])
       /\ (last'.op = "broadcast" /\ Plain(last'.calls)) =>
            SendsTo(last'.calls, w) = Count(windows, w)]_vars

C13_Witness ==
  /\ last.op = "detach"
  /\ last.args = <<"w1">>
  /\ windows = <<"w2", "w1">>
  /\ closedListeners["w1"] = 2
  /\ closedListeners["w2"] = 1

\* C14: while the dispatcher is stopped, connect(e, h) appends an entry to
\* this.connectors also when e has entries already, and disconnect(e) removes
\* the first entry of e and no other, the rest keeping their order; a start()
\* made right after such a disconnect registers the callbacks of the entries
\* that are left (of connect(e, h1); connect(e, h2); disconnect(e) those of
\* h2) and none of the removed entry.
C14_ConnectAppendsDisconnectFirst ==
  [][\A e \in Emitters :
       /\ (last'.op = "connect" /\ last'.args[1] = e /\ ~running) =>
            /\ last'.error = ""
            /\ connectors' =
                 connectors \o <<[emitter |-> e, handlers |-> last'.args[2]]>>
       /\ (last'.op = "disconnect" /\ last'.args = <<e>> /\ ~running
             /\ EntriesOf(connectors, e) > 0) =>
            \E i \in 1..Len(connectors) :
              LET kept == [j \in 1..(Len(connectors) - 1) |->
                             IF j < i THEN connectors[j] ELSE connectors[j + 1]]
                  s == start(connectors', running', listeners')
              IN /\ connectors[i].emitter = e
                 /\ \A j \in 1..(i - 1) : connectors[j].emitter # e
                 /\ connectors' = kept
                 /\ s.running
                 /\ \A e2 \in Emitters, ev \in EventNames, cb \in Callbacks :
                      /\ Held(s.listeners, e2, ev, cb) = Entries(kept, e2, ev, cb)
                      /\ Invoked(s.listeners, e2, ev, cb) = Entries(kept, e2, ev, cb)]_vars

C14_Witness ==
  /\ last.op = "disconnect"
  /\ last.error = ""
  /\ ~running
  /\ Len(connectors) = 1
  /\ connectors[1].emitter = last.args[1]
  /\ connectors[1].handlers = << <<"second", "h1">>, <<"first", "h2">> >>

\* C15: the state a start() leaves at its return (the call itself, or the one
\* restart() makes in its then-callback) has running true and every connected
\* callback registered; the state a stop() leaves at its return (the call, or
\* the one restart() begins with) has running false and no connected callback
\* registered, also while a promise of restart() is still pending; and no
\* state has the flag and the registrations disagreeing.
C15_BookkeepingDoneAtReturn ==
  /\ last.op \in {"start", "restart.then"} =>
       running /\ RegisteredOnce(connectors, listeners)
  /\ last.op \in {"stop", "restart"} =>
       ~running /\ NoneRegistered(listeners)
  /\ running \/ NoneRegistered(listeners)
  /\ ~running \/ RegisteredOnce(connectors, listeners)

C15_Witness ==
  /\ last.op = "start"
  /\ last.calls # <<>>
  /\ running
  /\ microtasks # <<>>

\* the calls of a broadcast hold a detach of w made from within a send
DetachedWithin(calls, w) ==
  \E i \in 1..Len(calls) : calls[i] = <<"detach", w>>

\* C16: a broadcast in which no send throws calls send exactly once for each
\* occurrence of every window that is in this.windows when broadcast() is
\* called and is not detached from within a send of that broadcast, whatever
\* detach() calls the sends make.
C16_ReentrantDetachSkipsNone ==
  [][(last'.op = "broadcast" /\ last'.error = "") =>
       \A w \in Windows :
         (Count(windows, w) > 0 /\ ~DetachedWithin(last'.calls, w)) =>
           SendsTo(last'.calls, w) = Count(windows, w)]_vars

\* this.windows after the detach() calls the sends of a broadcast made, in
\* the order they were made, and nothing else
RECURSIVE ApplyDetaches(_, _)
ApplyDetaches(ws, calls) ==
  IF calls = <<>> THEN ws
  ELSE ApplyDetaches(IF Head(calls)[1] = "detach"
                     THEN detach(ws, Head(calls)[2]) ELSE ws,
                     Tail(calls))

\* C17: a broadcast() throws exactly when a send threw, with that error, and
\* the failing send is the last call it made: the windows after the failing
\* one are not sent the event (with no detach from within a send, the sends
\* are those to the first k windows in order, the k-th failing). The failure
\* changes nothing: this.windows is as the detach() calls made before the
\* failure left it (as before the broadcast when there were none),
\* this.connectors, the flag and the registrations are untouched, and a
\* following broadcast whose sends all return sends to every window once per
\* occurrence.
C17_SendFailureLeavesState ==
  [][last'.op = "broadcast" =>
       LET c == last'.calls
           n == Len(c)
       IN /\ last'.error # "" <=> (n > 0 /\ c[n][1] = "throw")
          /\ \A i \in 1..(n - 1) : c[i][1] # "throw"
          /\ last'.error # "" =>
               /\ last'.error = SendError
               /\ c[n - 1] = <<"send", c[n][2], last'.args>>
               /\ windows' = ApplyDetaches(windows, c)
               /\ UNCHANGED <<connectors, running, listeners, closedListeners,
                              microtasks>>
               /\ Plain(SubSeq(c, 1, n - 1)) =>
                    /\ windows' = windows
                    /\ \E k \in 1..Len(windows) :
                         /\ n = k + 1
                         /\ \A i \in 1..k : c[i] = <<"send", windows[i], last'.args>>
               /\ \A p \in Payloads :
                    LET r == sendLoop(windows', 1, p,
                                      [w \in Windows |-> <<"return">>], <<>>)
                    IN /\ r.error = ""
                       /\ \A w \in Windows :
                            SendsTo(r.calls, w) = Count(windows', w)]_vars

C17_Witness ==
  /\ last.op = "broadcast"
  /\ last.error = SendError
  /\ Len(last.calls) = 2
  /\ Len(windows) = 2
  /\ windows[1] # windows[2]

\* the calls of kind tag among calls that name callback cb for ev on e
Made(calls, tag, e, ev, cb) == CallsOf(calls, <<tag, e, ev, cb>>)

\* C18: a start() or stop() in which an emitter call throws leaves with that
\* error, the throwing call being the last it made; this.running keeps its
\* value (false for start, true for stop) and this.connectors is untouched;
\* every on() made before the failure has left its registration, and every
\* removeListener() made before the failure has taken one registration away
\* where there was one.
C18_EmitterFailurePropagates ==
  [][last'.op \in {"start", "stop"} =>
       LET c == last'.calls
           n == Len(c)
       IN /\ last'.error # "" <=> (n > 0 /\ c[n][1] = "throw")
          /\ \A i \in 1..(n - 1) : c[i][1] # "throw"
          /\ last'.error # "" =>
               /\ last'.error = EmitterError
               /\ running' = running
               /\ running = (last'.op = "stop")
               /\ UNCHANGED <<connectors, windows, closedListeners, microtasks>>
               /\ \A i \in 1..(n - 1) :
                    c[i] = Tagged(IF last'.op = "start" THEN "on"
                                  ELSE "removeListener",
                                  ConnectorCalls(connectors))[i]
               /\ \A e \in Emitters, ev \in EventNames, cb \in Callbacks :
                    LET had == Count(listeners[e][ev], cb)
                        off == Made(c, "removeListener", e, ev, cb)
                    IN Count(listeners'[e][ev], cb) =
                         IF last'.op = "start"
                         THEN had + Made(c, "on", e, ev, cb)
                         ELSE IF had > off THEN had - off ELSE 0]_vars

\* a stop() failing at its third removeListener(), on a dispatcher that an
\* earlier failing start() has left a registration too many
C18_Witness ==
  /\ last.op = "stop"
  /\ last.error = EmitterError
  /\ Len(last.calls) = 3
  /\ running
  /\ \E e \in Emitters, ev \in EventNames, cb \in Callbacks :
       Held(listeners, e, ev, cb) > Entries(connectors, e, ev, cb)

\* C19: in every state, the 'closed' listeners the dispatcher holds on a
\* window are as many as the occurrences of the window in this.windows, so
\* that a window that has been detached holds none.
C19_ClosedListenerPerOccurrence ==
  \A w \in Windows : closedListeners[w] = Count(windows, w)

\* C20: attach(), detach() and a 'closed' notification leave this.connectors,
\* the listener arrays of the emitters and the flag as they are and throw in
\* neither run state; connect() and disconnect() leave this.windows and the
\* windows' listeners as they are; start(), stop(), restart() and its later
\* jobs, broadcast() and isRunning() leave this.windows and this.connectors
\* as they are, and isRunning() changes nothing at all.
C20_OwnCollectionOnly ==
  [][/\ last'.op \in {"attach", "detach", "closed"} =>
          /\ UNCHANGED <<connectors, listeners, running, microtasks>>
          /\ last'.error = ""
     /\ last'.op \in {"connect", "disconnect"} =>
          UNCHANGED <<windows, closedListeners>>
     /\ last'.op \in {"start", "stop", "restart", "restart.then",
                      "restart.resolved", "broadcast", "isRunning"} =>
          UNCHANGED <<windows, connectors, closedListeners>>
     /\ last'.op = "isRunning" => UNCHANGED core]_vars

C20_Witness ==
  /\ last.op = "attach"
  /\ last.error = ""
  /\ running
  /\ connectors # <<>>
  /\ Len(windows) = 2

\* C21: whatever start(), stop() and restart() calls and then-callbacks of
\* restart() follow one another, with connect() and disconnect() among them,
\* each step leaves every connected callback registered once per entry that
\* names it when the flag is set and not at all when it is clear, and every
\* removeListener() a stop() makes finds its callback registered by the
\* dispatcher.
C21_OverlappingLifecycleKeepsRegistrations ==
  [][/\ \A e \in Emitters, ev \in EventNames, cb \in Callbacks :
          /\ Held(listeners', e, ev, cb) <= Entries(connectors', e, ev, cb)
          /\ Held(listeners', e, ev, cb) =
               (IF running' THEN Entries(connectors', e, ev, cb) ELSE 0)
          /\ Made(last'.calls, "removeListener", e, ev, cb)
               <= Held(listeners, e, ev, cb)
          /\ Made(last'.calls, "on", e, ev, cb) > 0 =>
               Held(listeners, e, ev, cb) = 0]_vars

C21_Witness ==
  /\ last.op = "restart.then"
  /\ last.warning = StartWarning
  /\ running
  /\ connectors # <<>>
  /\ RegisteredOnce(connectors, listeners)

\* a restart() has returned and its start() has not run yet
StartPending == \E i \in 1..Len(microtasks) : microtasks[i] = "then"

\* C22: restart() on a running dispatcher returns with the flag clear, no
\* connected callback registered and its start() waiting in the job queue;
\* a connect() or disconnect() made while the flag is clear and that start()
\* waits throws nothing and changes this.connectors as it does on any stopped
\* dispatcher; and the waiting start(), run on a dispatcher still stopped,
\* calls on() for the entries this.connectors holds then, and leaves exactly
\* their callbacks registered.
C22_ConnectBetweenRestartHalves ==
  [][/\ (last'.op = "restart" /\ running) =>
          /\ ~running'
          /\ NoneRegistered(listeners')
          /\ microtasks' = microtasks \o <<"then">>
     /\ (last'.op = "connect" /\ ~running /\ StartPending) =>
          /\ last'.error = ""
          /\ connectors' = connectors \o
               <<[emitter |-> last'.args[1], handlers |-> last'.args[2]]>>
     /\ (last'.op = "disconnect" /\ ~running /\ StartPending) =>
          /\ last'.error = ""
          /\ connectors' = disconnect(connectors, last'.args[1])
     /\ (last'.op = "restart.then" /\ ~running) =>
          /\ running'
          /\ connectors' = connectors
          /\ last'.calls = Tagged("on", ConnectorCalls(connectors))
          /\ RegisteredOnce(connectors, listeners')]_vars

C22_Witness ==
  /\ last.op = "connect"
  /\ last.error = ""
  /\ ~running
  /\ microtasks = <<"then">>
  /\ Len(connectors) = 2
  /\ connectors[1] # connectors[2]

\* C23: a stop() made while the flag is clear and the start() of a restart()
\* waits in the job queue logs the not-running warning, throws nothing and
\* changes nothing, the waiting job included; and from such a stop() on, the
\* waiting start() does run and leaves the dispatcher running with every
\* connected callback registered once per entry.
C23_StopBeforeDeferredStart ==
  /\ [][(last'.op = "stop" /\ ~running /\ StartPending) =>
          /\ last'.warning = StopWarning
          /\ last'.error = ""
          /\ last'.calls = <<>>
          /\ UNCHANGED core]_vars
  /\ (last.op = "stop" /\ ~running /\ StartPending)
       ~> (/\ last.op = "restart.then"
           /\ running
           /\ RegisteredOnce(connectors, listeners))

C23_Witness ==
  /\ last.op = "stop"
  /\ last.warning = StopWarning
  /\ ~running
  /\ StartPending
  /\ connectors # <<>>

\* the entries of this.windows the loop of a broadcast has yet to visit
Remaining == Len(windows) - Sends(last.calls)

\* C24: a send of a broadcast that attaches a window appends it to
\* this.windows and leaves the loop with as many entries to visit as it had
\* before that send, at least one: the loop is not over, and is never over
\* while every send attaches. A send that returns leaves one entry fewer.
\* The loop is left when no entry is left, having sent the event once to each
\* entry this.windows holds then, in order, those attached by the sends
\* included; and when the sends attach finitely many windows it is left.
C24_AttachDuringBroadcast ==
  /\ [][/\ (Broadcasting /\ last'.op = "broadcasting"
              /\ Attaches(last'.calls) > Attaches(last.calls)) =>
             /\ windows' = windows \o <<last'.calls[Len(last'.calls)][2]>>
             /\ Remaining' = Remaining
             /\ Remaining' >= 1
        /\ (Broadcasting /\ last'.op = "broadcasting"
              /\ Attaches(last'.calls) = Attaches(last.calls)) =>
             /\ windows' = windows
             /\ Remaining' = Remaining - 1
        /\ (Broadcasting /\ last'.op = "broadcast") =>
             /\ Remaining = 0
             /\ windows' = windows
             /\ \A i \in 1..Len(windows) :
                  /\ SendsTo(last'.calls, windows[i]) = Count(windows, windows[i])
                  /\ \E j \in 1..Len(last'.calls) :
                       /\ last'.calls[j] = <<"send", windows[i], last'.args>>
                       /\ Sends(SubSeq(last'.calls, 1, j)) = i]_vars
  /\ Broadcasting ~> (last.op = "broadcast" /\ Remaining = 0)

C24_Witness ==
  /\ last.op = "broadcast"
  /\ Attaches(last.calls) = 2
  /\ Sends(last.calls) = 3
  /\ Len(windows) = 3

====
